---- MODULE Spec2Model ----
(***************************************************************************)
(* A model of PropertyRankings (src/src/app.py, src/src/debug.py): the     *)
(* travel-time text parser, the monthly payment calculation, the score     *)
(* normalisation and the ranking sort.                                     *)
(*                                                                         *)
(* Numbers.  The program computes in IEEE doubles (pandas / numpy).  The   *)
(* model keeps the three kinds of value a double column can hold: a        *)
(* number, NaN, and +/- infinity.  Numbers are exact rationals n/d in      *)
(* lowest terms; rounding of the doubles is not modelled.  Division by     *)
(* zero follows numpy: x/0 is +/-inf, 0/0 is NaN, and nothing is raised.   *)
(***************************************************************************)
EXTENDS Integers, Sequences, FiniteSets, TLC

VARIABLES
    pc,            \* position in the run that is being modelled
    df,            \* the DataFrame: a sequence of rows (records)
    df_sorted,     \* update_graph's df_sorted (empty until the sort ran)
    time_str,      \* the argument of convert_time_to_minutes
    time_minutes,  \* the results of convert_time_to_minutes (app, debug)
    pay_args,      \* the arguments of calculate_monthly_payment
    payment        \* the results of calculate_monthly_payment (app, debug)

vars == <<pc, df, df_sorted, time_str, time_minutes, pay_args, payment>>

-----------------------------------------------------------------------------
(* Doubles as exact rationals with NaN and infinities.                     *)

RECURSIVE GCD(_, _)
GCD(a, b) == IF b = 0 THEN a ELSE GCD(b, a % b)

Abs(x) == IF x < 0 THEN -x ELSE x

Sign(x) == IF x < 0 THEN -1 ELSE IF x > 0 THEN 1 ELSE 0

NaN == [k |-> "nan", n |-> 0, d |-> 0]

Inf(s) == [k |-> "inf", n |-> s, d |-> 0]

\* n/d for d # 0, in lowest terms with a positive denominator
Num(n, d) ==
    LET g == GCD(Abs(n), Abs(d))
        s == IF d < 0 THEN -1 ELSE 1
    IN  [k |-> "num", n |-> s * (n \div g), d |-> s * (d \div g)]

Int2F(i) == Num(i, 1)

IsNum(x) == x.k = "num"

IsNaN(x) == x.k = "nan"

IsInf(x) == x.k = "inf"

FNeg(x) == IF IsNum(x) THEN Num(-x.n, x.d)
           ELSE IF IsInf(x) THEN Inf(-x.n) ELSE NaN

\* the product of two numbers, the common factors taken out first
MulNum(x, y) ==
    LET g1 == GCD(Abs(x.n), y.d)
        g2 == GCD(Abs(y.n), x.d)
    IN  Num((x.n \div g1) * (y.n \div g2), (x.d \div g2) * (y.d \div g1))

FAdd(x, y) ==
    IF IsNaN(x) \/ IsNaN(y) THEN NaN
    ELSE IF IsInf(x) /\ IsInf(y) THEN (IF x.n = y.n THEN x ELSE NaN)
    ELSE IF IsInf(x) THEN x
    ELSE IF IsInf(y) THEN y
    ELSE LET g == GCD(x.d, y.d)
         IN  Num(x.n * (y.d \div g) + y.n * (x.d \div g), (x.d \div g) * y.d)

FSub(x, y) == FAdd(x, FNeg(y))

FMul(x, y) ==
    IF IsNaN(x) \/ IsNaN(y) THEN NaN
    ELSE IF IsInf(x) \/ IsInf(y)
         THEN (IF x.n = 0 \/ y.n = 0 THEN NaN ELSE Inf(Sign(x.n) * Sign(y.n)))
    ELSE MulNum(x, y)

FDiv(x, y) ==
    IF IsNaN(x) \/ IsNaN(y) THEN NaN
    ELSE IF IsInf(x) THEN (IF IsInf(y) THEN NaN
                           ELSE Inf(x.n * (IF y.n < 0 THEN -1 ELSE 1)))
    ELSE IF IsInf(y) THEN Int2F(0)
    ELSE IF y.n = 0 THEN (IF x.n = 0 THEN NaN ELSE Inf(Sign(x.n)))
    ELSE MulNum(x, Num(y.d, y.n))

\* x < y on doubles; every comparison with NaN is false
FLt(x, y) ==
    IF IsNaN(x) \/ IsNaN(y) THEN FALSE
    ELSE IF IsInf(x) THEN x.n < 0 /\ ~(IsInf(y) /\ y.n < 0)
    ELSE IF IsInf(y) THEN y.n > 0
    ELSE LET g == GCD(x.d, y.d)
         IN  x.n * (y.d \div g) < y.n * (x.d \div g)

FEq(x, y) == ~IsNaN(x) /\ ~IsNaN(y) /\ ~FLt(x, y) /\ ~FLt(y, x)

FLe(x, y) == ~IsNaN(x) /\ ~IsNaN(y) /\ ~FLt(y, x)

\* a column that does not exist yet
Absent == [k |-> "absent", n |-> 0, d |-> 0]

\* a CSV cell that holds text which is not a number
Text == [k |-> "text", n |-> 0, d |-> 0]

IsText(x) == x.k = "text"

-----------------------------------------------------------------------------
(* calculate_monthly_payment, app.py and debug.py.                         *)

RECURSIVE FPow(_, _)
FPow(x, e) == IF e = 0 THEN Int2F(1) ELSE FMul(x, FPow(x, e - 1))

\* the literal 0.8 of app.py line 96
DownPaymentFactor == Num(4, 5)

MonthsPerYear == 12

\* a slip of the closed form: the "- 1" of the denominator is left out
App_calculate_monthly_payment_NoMinusOne(price, annual_tax, hoa, annual_interest_rate, loan_term_years) ==
    LET loan_amount == FMul(price, DownPaymentFactor)
        monthly_interest_rate == FDiv(annual_interest_rate, Int2F(MonthsPerYear))
        total_payments == loan_term_years * MonthsPerYear
        growth == FPow(FAdd(Int2F(1), monthly_interest_rate), total_payments)
        monthly_mortgage_payment ==
            IF FLt(Int2F(0), monthly_interest_rate)
            THEN FDiv(FMul(loan_amount, FMul(monthly_interest_rate, growth)), growth)
            ELSE FDiv(loan_amount, Int2F(total_payments))
        monthly_tax == FDiv(annual_tax, Int2F(MonthsPerYear))
    IN  FAdd(FAdd(monthly_mortgage_payment, monthly_tax), hoa)

\* app.py: which formula the code uses is decided by monthly_interest_rate > 0
App_calculate_monthly_payment(price, annual_tax, hoa, annual_interest_rate, loan_term_years) ==
    LET loan_amount == FMul(price, DownPaymentFactor)
        monthly_interest_rate == FDiv(annual_interest_rate, Int2F(MonthsPerYear))
        total_payments == loan_term_years * MonthsPerYear
        growth == FPow(FAdd(Int2F(1), monthly_interest_rate), total_payments)
        monthly_mortgage_payment ==
            IF FLt(Int2F(0), monthly_interest_rate)
            THEN FDiv(FMul(loan_amount, FMul(monthly_interest_rate, growth)),
                      FSub(growth, Int2F(1)))
            ELSE FDiv(loan_amount, Int2F(total_payments))
        monthly_tax == FDiv(annual_tax, Int2F(MonthsPerYear))
    IN  FAdd(FAdd(monthly_mortgage_payment, monthly_tax), hoa)

\* debug.py: the function takes the monthly rate and the number of payments
Debug_calculate_monthly_payment(price, annual_tax, hoa, monthly_interest_rate, total_payments) ==
    LET monthly_tax == IF FLt(Int2F(0), annual_tax)
                       THEN FDiv(annual_tax, Int2F(MonthsPerYear))
                       ELSE Int2F(0)
        total_loan_amount == FAdd(FAdd(price, monthly_tax), hoa)
        growth == FPow(FAdd(Int2F(1), monthly_interest_rate), total_payments)
    IN  IF FLt(Int2F(0), monthly_interest_rate)
        THEN FDiv(FMul(total_loan_amount, FMul(monthly_interest_rate, growth)),
                  FSub(growth, Int2F(1)))
        ELSE FDiv(total_loan_amount, Int2F(total_payments))

\* debug.py calculate_payments: the call of the payment function for one row
Debug_payment_of_row(price, annual_tax, hoa, annual_interest_rate, loan_term_years) ==
    Debug_calculate_monthly_payment(price, annual_tax, hoa,
        FDiv(annual_interest_rate, Int2F(MonthsPerYear)),
        loan_term_years * MonthsPerYear)

\* pd.to_numeric(..., errors='coerce'): text that is no number becomes NaN
ToNumericCoerce(cell) == IF IsText(cell) THEN NaN ELSE cell

\* app.py calculate_payments
calculate_payments(d, annual_interest_rate, loan_term_years) ==
    [i \in 1..Len(d) |->
        LET price == ToNumericCoerce(d[i].Price)
            tax == ToNumericCoerce(d[i].AnnualTax)
            hoa == ToNumericCoerce(d[i].HOA)
        IN  [d[i] EXCEPT !.Price = price, !.AnnualTax = tax, !.HOA = hoa,
                         !.Payment = App_calculate_monthly_payment(
                             price, tax, hoa, annual_interest_rate, loan_term_years)]]

-----------------------------------------------------------------------------
(* calculate_score (app.py 143-156; debug.py 81-94 is the same text).      *)

Column(d, name) == [i \in 1..Len(d) |-> d[i][name]]

\* a slip of the maximum: the first row's value is taken
ColMax_FirstRow(col) == col[1]

\* Series.max(): NaN entries are skipped; NaN when nothing is left
ColMax(col) ==
    LET present == {i \in 1..Len(col) : ~IsNaN(col[i])}
    IN  IF present = {} THEN NaN
        ELSE col[CHOOSE i \in present : \A j \in present : FLe(col[j], col[i])]

\* Series.min(): NaN entries are skipped; NaN when nothing is left
ColMin(col) ==
    LET present == {i \in 1..Len(col) : ~IsNaN(col[i])}
    IN  IF present = {} THEN NaN
        ELSE col[CHOOSE i \in present : \A j \in present : FLe(col[i], col[j])]

\* 1 - (value / max), the four lower-is-better metrics
NormalizedLower(value, max) == FSub(Int2F(1), FDiv(value, max))

\* a slip of the size normalization: the minimum is not subtracted
NormalizedSqFt_NoShift(size, min_sq_ft, max_sq_ft) ==
    FDiv(size, FSub(max_sq_ft, min_sq_ft))

\* (Size - min) / (max - min)
NormalizedSqFt(size, min_sq_ft, max_sq_ft) ==
    FDiv(FSub(size, min_sq_ft), FSub(max_sq_ft, min_sq_ft))

\* a slip of the weights: the five metrics weigh the same
WeightedScore_EqualWeights(np, ns, nm, nc, nt) ==
    FMul(Num(20, 100), FAdd(FAdd(FAdd(FAdd(np, ns), nm), nc), nt))

\* the weighted sum of line 155, added left to right
WeightedScore(np, ns, nm, nc, nt) ==
    FAdd(FAdd(FAdd(FAdd(FMul(Num(25, 100), np), FMul(Num(25, 100), ns)),
                   FMul(Num(20, 100), nm)),
              FMul(Num(20, 100), nc)),
         FMul(Num(10, 100), nt))

\* arithmetic on an object column that holds text raises TypeError
ScoreRaises(d) == \E i \in 1..Len(d) : IsText(d[i].Size)

calculate_score(d) ==
    LET max_payment == ColMax(Column(d, "Payment"))
        min_sq_ft == ColMin(Column(d, "Size"))
        max_sq_ft == ColMax(Column(d, "Size"))
        max_distance_to_metro == ColMax(Column(d, "Metro"))
        max_commute_time == ColMax(Column(d, "Commute"))
        max_transit_time_to_museums == ColMax(Column(d, "TimeToSmithsonian"))
    IN  [i \in 1..Len(d) |->
            LET np == NormalizedLower(d[i].Payment, max_payment)
                ns == NormalizedSqFt(d[i].Size, min_sq_ft, max_sq_ft)
                nm == NormalizedLower(d[i].Metro, max_distance_to_metro)
                nc == NormalizedLower(d[i].Commute, max_commute_time)
                nt == NormalizedLower(d[i].TimeToSmithsonian, max_transit_time_to_museums)
            IN  [d[i] EXCEPT !.NormPayment = np, !.NormSqFt = ns, !.NormMetro = nm,
                             !.NormCommute = nc, !.NormTransit = nt,
                             !.Score = WeightedScore(np, ns, nm, nc, nt)]]

\* df.sort_values(by="Score", ascending=False), as a permutation p of the row
\* numbers: descending, the rows without a score last (na_position='last') and
\* in their input order.  The default kind is quicksort, which pandas documents
\* as not stable, so rows with equal scores may come out in either order.
IsSortedByScore(d, p) ==
    \A i, j \in 1..Len(d) : i < j =>
        /\ \/ IsNaN(d[p[j]].Score)
           \/ (~IsNaN(d[p[i]].Score) /\ FLe(d[p[j]].Score, d[p[i]].Score))
        /\ (IsNaN(d[p[i]].Score) /\ IsNaN(d[p[j]].Score)) => p[i] < p[j]

Permuted(d, p) == [i \in 1..Len(d) |-> d[p[i]]]

Perms(n) == {p \in [1..n -> 1..n] : \A i, j \in 1..n : p[i] = p[j] => i = j}

SortOutcomes(d) == {Permuted(d, p) : p \in {q \in Perms(Len(d)) : IsSortedByScore(d, q)}}

-----------------------------------------------------------------------------
(* The scoring run: calculate_payments, calculate_score, sort_values.      *)

\* bound of the model: the number of listings of a drawn DataFrame
MaxRows == 2

MkRow(id, price, tax, hoa, size, metro, commute, smith, pay) ==
    [ID |-> id, Price |-> price, AnnualTax |-> tax, HOA |-> hoa, Size |-> size,
     Metro |-> metro, Commute |-> commute, TimeToSmithsonian |-> smith,
     Payment |-> pay, NormPayment |-> Absent, NormSqFt |-> Absent,
     NormMetro |-> Absent, NormCommute |-> Absent, NormTransit |-> Absent,
     Score |-> Absent]

\* the row as it was before calculate_score added its columns
RawRow(r) == MkRow(r.ID, r.Price, r.AnnualTax, r.HOA, r.Size, r.Metro, r.Commute,
                   r.TimeToSmithsonian, r.Payment)

\* The metric columns calculate_score reads, for one listing.  Payment and Size
\* are any of two values or missing; the three travel metrics (Metro, Commute,
\* Time to Smithsonian) are drawn together from three profiles, which hold a
\* walking distance of 0 (the provider had no route) and missing travel times.
PaymentVals == {Int2F(1), Int2F(2), NaN}

SizeVals == {Int2F(1), Int2F(2), NaN}

TravelVals == { <<Int2F(0), Int2F(1), Int2F(1)>>,
                <<Int2F(1), Int2F(2), Int2F(2)>>,
                <<Int2F(1), NaN, NaN>> }

MetricTuples == PaymentVals \X SizeVals \X TravelVals

\* The cells of a loaded CSV row, (Price, Annual tax, HOA, Size): numbers, and
\* at most one cell of the row holding text that is no number
CsvTuples ==
    {t \in {Int2F(5), Text} \X {Int2F(0), Int2F(12), Text} \X {Int2F(0), Text}
               \X {Int2F(1), Int2F(2), Text} :
        Cardinality({c \in 1..4 : IsText(t[c])}) <= 1}

\* the interest rates and loan terms the payment formula is run at.  The
\* defaults 0.068 and 30 years give (1 + 0.068/12)^360, which is outside the
\* integers of the model checker; the same formula is exercised at a monthly
\* rate of 0 and of 1 over one year.
RateVals == {Int2F(0), Int2F(12)}

TermVals == {1}

\* the end-to-end scenario of three listings
ScenarioDf ==
    << MkRow(1, Absent, Absent, Absent, Int2F(800), Int2F(200), Int2F(30), Int2F(40), Int2F(2000)),
       MkRow(2, Absent, Absent, Absent, Int2F(1000), Int2F(400), Int2F(45), Int2F(80), Int2F(3000)),
       MkRow(3, Absent, Absent, Absent, Int2F(1200), Int2F(100), Int2F(20), Int2F(20), Int2F(1000)) >>

IdleTime == [type |-> "unset", chars |-> << >>]

IdleMinutes == [app |-> Absent, debug |-> Absent]

IdleArgs == [price |-> Absent, annual_tax |-> Absent, hoa |-> Absent,
             annual_interest_rate |-> Absent, loan_term_years |-> 0]

IdlePayment == [app |-> Absent, debug |-> Absent]

OthersIdle ==
    /\ time_str = IdleTime
    /\ time_minutes = IdleMinutes
    /\ pay_args = IdleArgs
    /\ payment = IdlePayment

\* a DataFrame whose Payment column is already there
InitScored ==
    /\ pc = "paid"
    /\ \E n \in 1..MaxRows : \E f \in [1..n -> MetricTuples] :
         df = [i \in 1..n |->
                 MkRow(i, Absent, Absent, Absent, f[i][2],
                       f[i][3][1], f[i][3][2], f[i][3][3], f[i][1])]

InitScenario ==
    /\ pc = "paid"
    /\ df = ScenarioDf

\* a DataFrame as load_data returns it, with the travel columns filled in
InitLoaded ==
    /\ pc = "loaded"
    /\ \E n \in 1..MaxRows : \E f \in [1..n -> CsvTuples] :
         df = [i \in 1..n |->
                 MkRow(i, f[i][1], f[i][2], f[i][3], f[i][4], Int2F(i), Int2F(i), Int2F(i), Absent)]

Init ==
    /\ InitScored \/ InitScenario \/ InitLoaded
    /\ df_sorted = << >>
    /\ OthersIdle

UnchangedOthers == UNCHANGED <<time_str, time_minutes, pay_args, payment>>

\* update_graph line 228
CalculatePayments ==
    /\ pc = "loaded"
    /\ \E r \in RateVals, t \in TermVals : df' = calculate_payments(df, r, t)
    /\ pc' = "paid"
    /\ UNCHANGED df_sorted
    /\ UnchangedOthers

\* update_graph line 230
CalculateScore ==
    /\ pc = "paid"
    /\ IF ScoreRaises(df)
       THEN pc' = "raised" /\ df' = df
       ELSE pc' = "scored" /\ df' = calculate_score(df)
    /\ UNCHANGED df_sorted
    /\ UnchangedOthers

\* update_graph line 235
SortValues ==
    /\ pc = "scored"
    /\ df_sorted' \in SortOutcomes(df)
    /\ pc' = "sorted"
    /\ UNCHANGED df
    /\ UnchangedOthers

Next == CalculatePayments \/ CalculateScore \/ SortValues

Spec == Init /\ [][Next]_vars

-----------------------------------------------------------------------------
(* convert_time_to_minutes.  A text is a sequence of one-character strings.*)

Digits == <<"0", "1", "2", "3", "4", "5", "6", "7", "8", "9">>

IsDigit(c) == \E v \in 1..Len(Digits) : Digits[v] = c

DigitVal(c) == (CHOOSE v \in 1..Len(Digits) : Digits[v] = c) - 1

IsSpace(c) == c = " "

HourWord == <<"h", "o", "u", "r">>

MinWord == <<"m", "i", "n">>

\* \d+ from position p, greedy: the position after the last digit
RECURSIVE EndOfDigits(_, _)
EndOfDigits(s, p) ==
    IF p <= Len(s) /\ IsDigit(s[p]) THEN EndOfDigits(s, p + 1) ELSE p

\* \s* from position p, greedy: the position after the last blank
RECURSIVE EndOfSpaces(_, _)
EndOfSpaces(s, p) ==
    IF p <= Len(s) /\ IsSpace(s[p]) THEN EndOfSpaces(s, p + 1) ELSE p

HasAt(s, p, lit) ==
    p + Len(lit) - 1 <= Len(s) /\ SubSeq(s, p, p + Len(lit) - 1) = lit

\* a slip of the pattern: the plural "s" required instead of optional
Component_PluralOnly(s, p, word) ==
    LET e == EndOfDigits(s, p)
        f == EndOfSpaces(s, e)
        g == f + Len(word)
    IN  IF e > p /\ f > e /\ HasAt(s, f, word) /\ HasAt(s, g, <<"s">>)
        THEN [found |-> TRUE, digits |-> SubSeq(s, p, e - 1), end |-> g + 1]
        ELSE [found |-> FALSE, digits |-> << >>, end |-> p]

\* one optional group of the pattern at position p: (\d+)\s+word[s]?
\* Giving back digits or blanks cannot make a failed attempt succeed, so the
\* greedy attempt decides.
Component(s, p, word) ==
    LET e == EndOfDigits(s, p)
        f == EndOfSpaces(s, e)
        g == f + Len(word)
    IN  IF e > p /\ f > e /\ HasAt(s, f, word)
        THEN [found |-> TRUE, digits |-> SubSeq(s, p, e - 1),
              end |-> IF HasAt(s, g, <<"s">>) THEN g + 1 ELSE g]
        ELSE [found |-> FALSE, digits |-> << >>, end |-> p]

\* time_pattern.search(time_str).  Every part of the pattern is optional, so
\* it matches (possibly the empty text) at the first position search tries,
\* and search never returns None.
TimePatternSearch(s) ==
    LET h == Component(s, 1, HourWord)
        m == Component(s, EndOfSpaces(s, h.end), MinWord)
    IN  [matched |-> TRUE, group1 |-> h, group2 |-> m]

\* int() of a run of digits
RECURSIVE ParseInt(_)
ParseInt(ds) ==
    IF ds = << >> THEN 0
    ELSE ParseInt(SubSeq(ds, 1, Len(ds) - 1)) * 10 + DigitVal(ds[Len(ds)])

MinutesPerHour == 60

\* app.py 76-86
convert_time_to_minutes(text) ==
    IF text.type # "str" \/ text.chars = << >> THEN NaN
    ELSE LET match == TimePatternSearch(text.chars)
         IN  IF ~match.matched THEN NaN
             ELSE LET hours == IF match.group1.found THEN ParseInt(match.group1.digits) ELSE 0
                      minutes == IF match.group2.found THEN ParseInt(match.group2.digits) ELSE 0
                  IN  Int2F(hours * MinutesPerHour + minutes)

\* debug.py 24-34, the same text
Debug_convert_time_to_minutes(text) ==
    IF text.type # "str" \/ text.chars = << >> THEN NaN
    ELSE LET match == TimePatternSearch(text.chars)
         IN  IF ~match.matched THEN NaN
             ELSE LET hours == IF match.group1.found THEN ParseInt(match.group1.digits) ELSE 0
                      minutes == IF match.group2.found THEN ParseInt(match.group2.digits) ELSE 0
                  IN  Int2F(hours * MinutesPerHour + minutes)

\* bounds of the duration texts
MaxHours == 2
MaxMins == 11
MaxGap == 2

\* the decimal digits of a natural number
RECURSIVE Decimal(_)
Decimal(n) == IF n < 10 THEN <<Digits[n + 1]>> ELSE Decimal(n \div 10) \o <<Digits[(n % 10) + 1]>>

Spaces(k) == [i \in 1..k |-> " "]

Plural(word, p) == IF p THEN word \o <<"s">> ELSE word

\* "<N> hour(s)", "<M> min(s)" and "<N> hour(s) <M> min(s)"
HoursText(n, p) == Decimal(n) \o <<" ">> \o Plural(HourWord, p)

MinsText(m, p) == Decimal(m) \o <<" ">> \o Plural(MinWord, p)

BothText(n, pn, gap, m, pm) == HoursText(n, pn) \o Spaces(gap) \o MinsText(m, pm)

DurationTexts ==
    {HoursText(n, p) : n \in 0..MaxHours, p \in BOOLEAN}
    \cup {MinsText(m, p) : m \in 0..MaxMins, p \in BOOLEAN}
    \cup UNION {{BothText(n, pn, gap, m, pm) : n \in 0..MaxHours, m \in 0..MaxMins} :
                  pn \in BOOLEAN, pm \in BOOLEAN, gap \in 1..MaxGap}

Str(chars) == [type |-> "str", chars |-> chars]

\* the sentinel of calculate_travel_time
NoData == Str(<<"N", "o", " ", "d", "a", "t", "a">>)

\* other arguments: no string at all, the empty string, text without a
\* duration in it
OtherArguments ==
    { [type |-> "NoneType", chars |-> << >>],
      [type |-> "float", chars |-> << >>],
      Str(<< >>),
      Str(<<"a", "b", "c">>),
      Str(<<"4", "2">>),
      Str(<<"1", " ", "d", "a", "y">>) }

\* gmaps.directions returned an empty list
NoRoute == [type |-> "list", chars |-> << >>]

InitTime ==
    /\ pc = "t_call"
    /\ time_str = IdleTime
    /\ time_minutes = IdleMinutes
    /\ df = << >>
    /\ df_sorted = << >>
    /\ pay_args = IdleArgs
    /\ payment = IdlePayment

\* calculate_travel_time: the duration text of the first route, or "No data"
CalculateTravelTime ==
    /\ pc = "t_call"
    /\ \E directions_result \in {Str(t) : t \in DurationTexts} \cup {NoRoute} :
         time_str' = IF directions_result = NoRoute THEN NoData ELSE directions_result
    /\ pc' = "t_arg"
    /\ UNCHANGED <<df, df_sorted, time_minutes, pay_args, payment>>

\* a call of convert_time_to_minutes with another argument
CallWithArgument ==
    /\ pc = "t_call"
    /\ time_str' \in OtherArguments
    /\ pc' = "t_arg"
    /\ UNCHANGED <<df, df_sorted, time_minutes, pay_args, payment>>

AppConvert ==
    /\ pc = "t_arg"
    /\ time_minutes.app = Absent
    /\ time_minutes' = [time_minutes EXCEPT !.app = convert_time_to_minutes(time_str)]
    /\ UNCHANGED <<pc, df, df_sorted, time_str, pay_args, payment>>

DebugConvert ==
    /\ pc = "t_arg"
    /\ time_minutes.debug = Absent
    /\ time_minutes' = [time_minutes EXCEPT !.debug = Debug_convert_time_to_minutes(time_str)]
    /\ UNCHANGED <<pc, df, df_sorted, time_str, pay_args, payment>>

NextTime == CalculateTravelTime \/ CallWithArgument \/ AppConvert \/ DebugConvert

SpecTime == InitTime /\ [][NextTime]_vars

-----------------------------------------------------------------------------
(* calculate_monthly_payment, called on its own.                           *)

\* bounds of the arguments
MaxPrice == 3
MaxTax == 2
MaxHoa == 1

\* (annual interest rate, loan term in years): a rate of 0 over 1 and over 30
\* years, and a monthly rate of 1 over one year, where (1 + i)^N = 2^12
RateTerms == { <<Int2F(0), 1>>, <<Int2F(0), 30>>, <<Int2F(12), 1>> }

PayArguments ==
    {[price |-> Int2F(p), annual_tax |-> Int2F(t), hoa |-> Int2F(h),
      annual_interest_rate |-> rt[1], loan_term_years |-> rt[2]] :
        p \in 0..MaxPrice, t \in 0..MaxTax, h \in 0..MaxHoa, rt \in RateTerms}

InitPay ==
    /\ pc = "p_call"
    /\ pay_args \in PayArguments
    /\ payment = IdlePayment
    /\ df = << >>
    /\ df_sorted = << >>
    /\ time_str = IdleTime
    /\ time_minutes = IdleMinutes

\* app.py: calculate_monthly_payment as calculate_payments calls it
AppPayment ==
    /\ pc = "p_call"
    /\ payment.app = Absent
    /\ payment' = [payment EXCEPT !.app =
          App_calculate_monthly_payment(pay_args.price, pay_args.annual_tax, pay_args.hoa,
              pay_args.annual_interest_rate, pay_args.loan_term_years)]
    /\ UNCHANGED <<pc, df, df_sorted, time_str, time_minutes, pay_args>>

\* debug.py: calculate_monthly_payment as calculate_payments calls it
DebugPayment ==
    /\ pc = "p_call"
    /\ payment.debug = Absent
    /\ payment' = [payment EXCEPT !.debug =
          Debug_payment_of_row(pay_args.price, pay_args.annual_tax, pay_args.hoa,
              pay_args.annual_interest_rate, pay_args.loan_term_years)]
    /\ UNCHANGED <<pc, df, df_sorted, time_str, time_minutes, pay_args>>

NextPay == AppPayment \/ DebugPayment

SpecPay == InitPay /\ [][NextPay]_vars

-----------------------------------------------------------------------------
(* Claims about convert_time_to_minutes, checked under SpecTime.           *)

\* a text holds a duration component somewhere: "<N> hour(s)" or "<M> min(s)"
HoldsComponent(chars) ==
    \E p \in 1..Len(chars) :
        Component(chars, p, HourWord).found \/ Component(chars, p, MinWord).found

Unparseable(arg) ==
    arg.type # "str" \/ arg.chars = << >> \/ ~HoldsComponent(arg.chars)

\* C2: an argument that is no string, is empty or holds no duration component
\* (such as the "No data" sentinel) converts to the missing value, never to a
\* number.
C2_UnparseableIsMissing ==
    (pc = "t_arg" /\ Unparseable(time_str) /\ time_minutes.app # Absent)
        => IsNaN(time_minutes.app)

ConvertedTo(v) ==
    /\ time_minutes.app # Absent => time_minutes.app = Int2F(v)
    /\ time_minutes.debug # Absent => time_minutes.debug = Int2F(v)

\* C10: "<N> hour(s) <M> min(s)" converts to 60*N + M, "<N> hour(s)" to 60*N
\* and "<M> min(s)" to M, in app.py and in debug.py.
C10_DurationTextToMinutes ==
    pc = "t_arg" =>
        \A n \in 0..MaxHours, m \in 0..MaxMins, pn \in BOOLEAN, pm \in BOOLEAN :
            /\ time_str = Str(HoursText(n, pn)) => ConvertedTo(60 * n)
            /\ time_str = Str(MinsText(m, pm)) => ConvertedTo(m)
            /\ \A gap \in 1..MaxGap :
                  time_str = Str(BothText(n, pn, gap, m, pm)) => ConvertedTo(60 * n + m)

\* "1 hour 5 mins" was converted to 65 by app.py and by debug.py
C10_Witness ==
    /\ time_str = Str(BothText(1, FALSE, 1, 5, TRUE))
    /\ time_minutes.app = Int2F(65)
    /\ time_minutes.debug = Int2F(65)

-----------------------------------------------------------------------------
(* Claims about calculate_score and the sort, checked under Spec.          *)

Rows == 1..Len(df)

RawDf(d) == [i \in 1..Len(d) |-> RawRow(d[i])]

MetricNames == {"Payment", "Size", "Metro", "Commute", "TimeToSmithsonian"}

NormNames == {"NormPayment", "NormSqFt", "NormMetro", "NormCommute", "NormTransit"}

NormOf(metric) ==
    CASE metric = "Payment" -> "NormPayment"
      [] metric = "Size" -> "NormSqFt"
      [] metric = "Metro" -> "NormMetro"
      [] metric = "Commute" -> "NormCommute"
      [] metric = "TimeToSmithsonian" -> "NormTransit"

\* every listing has the same, present value of the metric
AllShareValue(metric) ==
    /\ \A i \in Rows : IsNum(df[i][metric])
    /\ \A i, j \in Rows : df[i][metric] = df[j][metric]

\* C1: when all listings share the identical value of a metric, every listing's
\* normalized value of that metric is the neutral 0.5 (so neither NaN nor
\* infinite).
C1_DegenerateIsNeutral ==
    pc = "scored" =>
        \A metric \in MetricNames :
            AllShareValue(metric) => \A i \in Rows : df[i][NormOf(metric)] = Num(1, 2)

HasMissingMetric(r) == \E metric \in MetricNames : ~IsNum(r[metric])

PositionOf(id) == CHOOSE q \in 1..Len(df_sorted) : df_sorted[q].ID = id

\* C3: a listing with a missing input metric has a missing Score and stands
\* after every listing that has a score, and the listings with all metrics
\* present are still scored.
C3_MissingMetricMissingScore ==
    pc = "sorted" =>
        \A i \in Rows : HasMissingMetric(df[i]) =>
            /\ IsNaN(df[i].Score)
            /\ \A j \in Rows : IsNum(df[j].Score) => PositionOf(df[j].ID) < PositionOf(df[i].ID)
            /\ \A j \in Rows : ~HasMissingMetric(df[j]) => IsNum(df[j].Score)

\* C4: the ranked sequence is in descending order of Score, and listings with
\* identical scores keep their input order (the ID is the input position).
C4_SortedDescendingAndStable ==
    pc = "sorted" =>
        \A a, b \in 1..Len(df_sorted) : a < b =>
            /\ (IsNum(df_sorted[a].Score) /\ IsNum(df_sorted[b].Score))
                  => FLe(df_sorted[b].Score, df_sorted[a].Score)
            /\ FEq(df_sorted[a].Score, df_sorted[b].Score)
                  => df_sorted[a].ID < df_sorted[b].ID

WellFormed(d) ==
    /\ \A i \in 1..Len(d) : \A metric \in MetricNames :
          IsNum(d[i][metric]) /\ d[i][metric].n >= 0
    /\ \A metric \in MetricNames : FLt(Int2F(0), ColMax(Column(d, metric)))
    /\ FLt(ColMin(Column(d, "Size")), ColMax(Column(d, "Size")))

InUnitInterval(x) == IsNum(x) /\ FLe(Int2F(0), x) /\ FLe(x, Int2F(1))

\* C5: for a well-formed collection every normalized value and every Score
\* lies in [0,1].
C5_WellFormedInUnitInterval ==
    (pc = "scored" /\ WellFormed(df)) =>
        \A i \in Rows :
            /\ \A norm \in NormNames : InUnitInterval(df[i][norm])
            /\ InUnitInterval(df[i].Score)

\* a scored well-formed collection of two or more listings with a score that
\* is strictly inside the interval
C5_Witness ==
    /\ pc = "scored"
    /\ WellFormed(df)
    /\ Len(df) >= 2
    /\ \E i \in Rows : FLt(Int2F(0), df[i].Score) /\ FLt(df[i].Score, Int2F(1))

IsScenario == RawDf(df) = ScenarioDf

\* C6 as stated: in the scenario listing 3 ranks first with score 1.0 and
\* listing 2 ranks last.
C6_ScenarioScoreOne ==
    (pc = "sorted" /\ IsScenario) =>
        /\ df_sorted[1].ID = 3
        /\ df_sorted[1].Score = Int2F(1)
        /\ df_sorted[3].ID = 2

\* C6 amended: in the scenario listing 3 ranks first with score 271/360 (its
\* four lower-is-better metrics are normalized against the maximum, giving
\* 2/3, 3/4, 5/9 and 3/4), and listing 2 ranks last.
C6_ScenarioRanking ==
    (pc = "sorted" /\ IsScenario) =>
        /\ df_sorted[1].ID = 3
        /\ df_sorted[1].Score = Num(271, 360)
        /\ df_sorted[2].ID = 1
        /\ df_sorted[3].ID = 2

C6_Witness ==
    /\ pc = "sorted"
    /\ IsScenario
    /\ df_sorted[1].ID = 3
    /\ df_sorted[3].Score = Num(1, 8)

FromCsv == \A i \in Rows : df[i].Price # Absent

\* C7: with a non-numeric value in Price, Annual tax, HOA or Size the run does
\* not raise, the malformed cell is coerced to the missing value, and the
\* listings whose metrics are all numbers still get a score.
C7_MalformedNeverRaises ==
    /\ pc # "raised"
    /\ (pc \in {"paid", "scored", "sorted"} /\ FromCsv) =>
          \A i \in Rows : ~IsText(df[i].Price) /\ ~IsText(df[i].AnnualTax)
                          /\ ~IsText(df[i].HOA) /\ ~IsText(df[i].Size)
    /\ (pc \in {"scored", "sorted"} /\ FromCsv) =>
          \A i \in Rows : ~HasMissingMetric(df[i]) => IsNum(df[i].Score)

\* what calculate_score gave each listing, in the order of the rows
ScoresOf(d) ==
    [i \in 1..Len(d) |->
        <<d[i].ID, d[i].NormPayment, d[i].NormSqFt, d[i].NormMetro,
          d[i].NormCommute, d[i].NormTransit, d[i].Score>>]

\* C8: scoring the same listings in any other order gives each listing (by
\* ID) the same five normalized values and the same Score.
C8_ScoreOrderInvariant ==
    pc = "scored" =>
        \A p \in Perms(Len(df)) :
            ScoresOf(calculate_score(Permuted(RawDf(df), p))) = ScoresOf(Permuted(df, p))

\* two listings that differ in every metric were scored, with different scores
C8_Witness ==
    /\ pc = "scored"
    /\ Len(df) >= 2
    /\ \A metric \in MetricNames :
          IsNum(df[1][metric]) /\ IsNum(df[2][metric]) /\ df[1][metric] # df[2][metric]
    /\ IsNum(df[1].Score) /\ IsNum(df[2].Score) /\ df[1].Score # df[2].Score

-----------------------------------------------------------------------------
(* Claims about calculate_monthly_payment, checked under SpecPay.          *)

\* the payment as the specification states it: the mortgage payment on a
\* principal of 0.8 * price, plus annual_tax / 12, plus hoa
StatedPayment(a) ==
    LET principal == FMul(Num(8, 10), a.price)
        n == a.loan_term_years * 12
        i == FDiv(a.annual_interest_rate, Int2F(12))
        growth == FPow(FAdd(Int2F(1), i), n)
        mortgage == IF a.annual_interest_rate = Int2F(0)
                    THEN FDiv(principal, Int2F(n))
                    ELSE FDiv(FMul(principal, FMul(i, growth)), FSub(growth, Int2F(1)))
    IN  FAdd(FAdd(mortgage, FDiv(a.annual_tax, Int2F(12))), a.hoa)

\* C9: the payment function of app.py and that of debug.py both return the
\* mortgage payment on 0.8 * price plus annual_tax / 12 plus hoa, with the
\* mortgage payment principal / (years * 12) at an interest rate of 0.
C9_PaymentFormula ==
    /\ payment.app # Absent => payment.app = StatedPayment(pay_args)
    /\ payment.debug # Absent => payment.debug = StatedPayment(pay_args)


\* the loan balance after k more installments: each month the balance grows by
\* the monthly interest and one installment is paid
RECURSIVE BalanceAfter(_, _, _, _)
BalanceAfter(balance, monthly_rate, installment, k) ==
    IF k = 0 THEN balance
    ELSE BalanceAfter(FSub(FMul(balance, FAdd(Int2F(1), monthly_rate)), installment),
                      monthly_rate, installment, k - 1)

\* the mortgage part of the payment app.py returned: the payment less the
\* monthly tax and the HOA fee
MortgagePartOf(a, total) ==
    FSub(FSub(total, FDiv(a.annual_tax, Int2F(12))), a.hoa)

\* the balance of the principal 0.8 * price after k installments of the
\* mortgage payment app.py computed
AppBalanceAfter(k) ==
    BalanceAfter(FMul(Num(8, 10), pay_args.price),
                 FDiv(pay_args.annual_interest_rate, Int2F(12)),
                 MortgagePartOf(pay_args, payment.app), k)

\* C11: at an interest rate above 0 the closed-form mortgage payment is the
\* installment of the iterative amortization: paying it term * 12 times, with
\* the monthly interest added to the balance each time, brings the balance of
\* the principal to exactly zero.
C11_ClosedFormAmortizes ==
    (payment.app # Absent /\ FLt(Int2F(0), pay_args.annual_interest_rate)) =>
        AppBalanceAfter(pay_args.loan_term_years * 12) = Int2F(0)

\* a loan at a rate above 0 was computed, and its balance is still above zero
\* one installment before the end and zero after the last one
C11_Witness ==
    /\ payment.app # Absent
    /\ FLt(Int2F(0), pay_args.annual_interest_rate)
    /\ FLt(Int2F(0), pay_args.price)
    /\ FLt(Int2F(0), pay_args.annual_tax)
    /\ FLt(Int2F(0), AppBalanceAfter(pay_args.loan_term_years * 12 - 1))
    /\ AppBalanceAfter(pay_args.loan_term_years * 12) = Int2F(0)

====
